---- MODULE Spec2Model ----
(***************************************************************************)
(* DatCure (src/datcure.py): the tag-indexed image gallery.  The session   *)
(* state of DatCureApp (images, captions, tag_frequency, all_tags,         *)
(* selected_images, filtered_images, filter_active, filter_mode, the focus *)
(* image, the tag list widget and the thumbnails shown), the files on disk *)
(* and the load workers of the thread pool.                                *)
(*                                                                         *)
(* A main-thread handler is one action.  A load worker runs on a pool      *)
(* thread and is a sequence of steps that interleave with the handlers and *)
(* with other workers.  Text (a caption file, a tag, the text of an input  *)
(* field) is a sequence of one-character strings.                          *)
(***************************************************************************)
EXTENDS Integers, Sequences, FiniteSets, TLC

VARIABLES
    images,            \* self.images: sequence of image paths
    captions,          \* self.captions: image path -> sequence of tags
    tag_frequency,     \* self.tag_frequency: tag -> count (defaultdict(int))
    all_tags,          \* self.all_tags: set of tags
    selected_images,   \* self.selected_images: set of image paths
    filtered_images,   \* self.filtered_images: sequence of image paths
    filter_active,     \* self.filter_active
    filter_mode,       \* self.filter_mode: "Inclusive" | "Exclusive"
    focus_image_path,  \* self.focus_image_path (NoPath: None)
    tag_list,          \* the items of the tag list widget: [tag, freq] records
    gallery,           \* the thumbnails shown in the scroll area, in order
    files,             \* image files on disk: path -> the picture it holds
    texts,             \* caption files on disk: path -> text
    workers,           \* load workers in the thread pool: id -> worker record
    results,           \* result signals queued for the main thread
    image_dir,         \* self.image_dir
    include_subdirs,   \* self.include_subdirs_checkbox.isChecked()
    loads,             \* number of load_images calls so far
    relocs,            \* number of copy/move batches so far
    edits,             \* number of tag edits (add/remove/sort) so far
    lastOp             \* the handler that ran last, with what it was given

vars == <<images, captions, tag_frequency, all_tags, selected_images,
          filtered_images, filter_active, filter_mode, focus_image_path,
          tag_list, gallery, files, texts, workers, results, image_dir,
          include_subdirs, loads, relocs, edits, lastOp>>


-----------------------------------------------------------------------------
(* Bounds of the model.                                                    *)

MaxLoads == 2
MaxRelocs == 1
MaxEdits == 2
MaxFilterEdits == 1
MaxBatches == 1

-----------------------------------------------------------------------------
(* Sequences and text.                                                     *)

Range(s) == {s[i] : i \in 1..Len(s)}

Contains(s, x) == \E i \in 1..Len(s) : s[i] = x

\* list.remove(x): drops the first occurrence of x.
RECURSIVE RemoveFirst(_, _)
RemoveFirst(s, x) ==
    IF s = <<>> THEN <<>>
    ELSE IF Head(s) = x THEN Tail(s)
    ELSE <<Head(s)>> \o RemoveFirst(Tail(s), x)

\* the number of occurrences of x in s
RECURSIVE Occurrences(_, _)
Occurrences(s, x) ==
    IF s = <<>> THEN 0
    ELSE (IF Head(s) = x THEN 1 ELSE 0) + Occurrences(Tail(s), x)

\* str.strip(): leading and trailing blanks removed
RECURSIVE LStrip(_)
LStrip(s) == IF s # <<>> /\ Head(s) = " " THEN LStrip(Tail(s)) ELSE s

RECURSIVE RStrip(_)
RStrip(s) ==
    IF s # <<>> /\ s[Len(s)] = " " THEN RStrip(SubSeq(s, 1, Len(s) - 1)) ELSE s

\* a strip() that would leave the text as typed
StripIdentity(s) == s

Strip(s) == RStrip(LStrip(s))

\* str.split(","): the pieces between the commas, empty pieces kept
RECURSIVE SplitComma(_)
SplitComma(s) ==
    IF \A i \in 1..Len(s) : s[i] # "," THEN <<s>>
    ELSE LET k == CHOOSE i \in 1..Len(s) :
                      s[i] = "," /\ \A j \in 1..(i - 1) : s[j] # ","
         IN <<SubSeq(s, 1, k - 1)>> \o SplitComma(SubSeq(s, k + 1, Len(s)))

\* [tag.strip() for tag in text.split(",") if tag.strip()]
ParseCaption(text) ==
    LET pieces == SplitComma(text)
        stripped == [i \in 1..Len(pieces) |-> Strip(pieces[i])]
    IN SelectSeq(stripped, LAMBDA t : t # <<>>)

\* ", ".join(tags)
RECURSIVE JoinTags(_)
JoinTags(tags) ==
    IF tags = <<>> THEN <<>>
    ELSE IF Len(tags) = 1 THEN tags[1]
    ELSE tags[1] \o <<",", " ">> \o JoinTags(Tail(tags))

-----------------------------------------------------------------------------
(* Paths.  A path is [dir, root, ext]: os.path.basename is root \o ext,    *)
(* os.path.splitext gives (dir/root, ext).  Roots hold no dot and every    *)
(* ext is one of the extensions below, so two paths are the same file name *)
(* exactly when the records are equal.                                     *)

Path(d, r, e) == [dir |-> d, root |-> r, ext |-> e]

NoPath == Path("", "", "")

\* caption_path = os.path.splitext(image_path)[0] + ".txt"
CaptionPath(p) == Path(p.dir, p.root, ".txt")

TopCatPng == Path("top", "cat", ".png")
SubCatPng == Path("sub", "cat", ".png")
SubCatJpg == Path("sub", "cat", ".jpg")

\* The directory tree: top holds cat.png and the directory sub, sub holds
\* cat.png and cat.jpg (which share the caption file sub/cat.txt); dst is a
\* directory outside top.
SourceImages == {TopCatPng, SubCatPng, SubCatJpg}

\* the directories os.walk(d) visits
WalkDirs(d) == IF d = "top" THEN {"top", "sub"} ELSE {d}

\* the order in which os.walk yields the files of the tree
WalkOrder == <<TopCatPng, SubCatPng, SubCatJpg>>

\* the directories a load is asked for
LoadDirs == {"top", "sub"}

DestDir == "dst"

\* the image files os.walk(d) finds, with the files as they are on disk
ScanDir(d, fs) ==
    SelectSeq(WalkOrder, LAMBDA p : p \in DOMAIN fs /\ p.dir \in WalkDirs(d))

-----------------------------------------------------------------------------
(* Maps.                                                                   *)

EmptyMap == [x \in {} |-> 0]

MapSet(f, k, v) == [x \in DOMAIN f \cup {k} |-> IF x = k THEN v ELSE f[x]]

MapDel(f, k) == [x \in DOMAIN f \ {k} |-> f[x]]

\* self.captions.get(p, [])
CaptionOf(caps, p) == IF p \in DOMAIN caps THEN caps[p] ELSE <<>>

\* self.tag_frequency.get(t, 0)
FreqOf(freq, t) == IF t \in DOMAIN freq THEN freq[t] ELSE 0

\* Reading self.tag_frequency[t] (a defaultdict(int)) inserts t with 0 when
\* t is missing.
FreqTouch(freq, t) == IF t \in DOMAIN freq THEN freq ELSE MapSet(freq, t, 0)

\* an increment that would count the tag twice
FreqIncTwice(freq, t) == MapSet(freq, t, FreqOf(freq, t) + 2)

\* self.tag_frequency[t] += 1
FreqInc(freq, t) == MapSet(freq, t, FreqOf(freq, t) + 1)

\* if self.tag_frequency[t] > 0: decrement; if it reaches 0: del
FreqDec(freq, t) ==
    LET f == FreqTouch(freq, t)
    IN IF f[t] > 0
       THEN (IF f[t] - 1 = 0 THEN MapDel(f, t) ELSE MapSet(f, t, f[t] - 1))
       ELSE f

\* update_tag_list: the items of sorted(self.all_tags) with their counts;
\* reading the count of a tag missing from tag_frequency inserts it.
TagListFreq(freq, tags) ==
    [t \in DOMAIN freq \cup tags |-> FreqOf(freq, t)]

TagListItems(freq, tags) ==
    {[tag |-> t, freq |-> FreqOf(freq, t)] : t \in tags}

\* tag_text.rsplit(" (", 1)[0] of the item text "<tag> (<freq>)"
TagOfItem(item) == item.tag

-----------------------------------------------------------------------------
(* The handler that ran last: its name, the tag or directory it was given, *)
(* the images it worked on, for a copy or move what it did per image, for  *)
(* a tag edit or sort the images whose caption file could not be written.  *)

Op(name, arg, imgs, log) ==
    [name |-> name, arg |-> arg, imgs |-> imgs, log |-> log, tags |-> {},
     fail |-> {}]

OpTags(name, tags) == [Op(name, <<>>, {}, <<>>) EXCEPT !.tags = tags]

Text(str) == <<str>>

-----------------------------------------------------------------------------
(* The state after DatCureApp.__init__, and the files on disk.             *)

\* what the caption files may hold when the session starts
TopCaptionChoices ==
    { <<>>,
      <<<<"a", ",", " ", "b">>>>,
      <<<<"a", ",", "a">>>> }

SubCaptionChoices ==
    { <<>>,
      <<<<"b">>>>,
      <<<<" ", "a", " ", ",", ",", "b">>>> }

InitTexts(top, sub) ==
    LET dom == (IF top = <<>> THEN {} ELSE {CaptionPath(TopCatPng)})
               \cup (IF sub = <<>> THEN {} ELSE {CaptionPath(SubCatPng)})
    IN [p \in dom |-> IF p = CaptionPath(TopCatPng) THEN top[1] ELSE sub[1]]

InitFiles == [p \in SourceImages |->
                 IF p = TopCatPng THEN "picTopCatPng"
                 ELSE IF p = SubCatPng THEN "picSubCatPng" ELSE "picSubCatJpg"]

InitSession ==
    /\ images = <<>>
    /\ captions = EmptyMap
    /\ tag_frequency = EmptyMap
    /\ all_tags = {}
    /\ selected_images = {}
    /\ filtered_images = <<>>
    /\ filter_active = FALSE
    /\ filter_mode = "Inclusive"
    /\ focus_image_path = NoPath
    /\ tag_list = {}
    /\ gallery = <<>>
    /\ workers = EmptyMap
    /\ results = <<>>
    /\ image_dir = ""
    /\ include_subdirs = TRUE
    /\ loads = 0
    /\ relocs = 0
    /\ edits = 0
    /\ lastOp = Op("init", <<>>, {}, <<>>)

\* what the destination directory may hold when the session starts
DstCatPng == Path("dst", "cat", ".png")
DstCat1Png == Path("dst", "cat_1", ".png")
DstCatTxt == Path("dst", "cat", ".txt")

OldText == <<"o">>

DstChoices ==
    { [fs |-> EmptyMap, txt |-> EmptyMap],
      [fs |-> [p \in {DstCatPng} |-> "picOld"],
       txt |-> [p \in {DstCatTxt} |-> OldText]],
      [fs |-> [p \in {DstCatPng, DstCat1Png} |-> "picOld"], txt |-> EmptyMap],
      [fs |-> EmptyMap, txt |-> [p \in {DstCatTxt} |-> OldText]] }

\* the files on disk: the three source images, caption files with one of
\* the texts tops and subs, a destination directory as in dsts
InitWorld(tops, subs, dsts) ==
    /\ InitSession
    /\ \E top \in tops, sub \in subs, dst \in dsts :
          /\ files = InitFiles @@ dst.fs
          /\ texts = InitTexts(top, sub) @@ dst.txt

Init == InitWorld(TopCaptionChoices, SubCaptionChoices, DstChoices)

-----------------------------------------------------------------------------
(* Directory loading.                                                      *)

\* populate_gallery(imgs): update_tag_list, then one thumbnail per image
PopulateGallery(imgs, freq, tags) ==
    /\ tag_list' = TagListItems(freq, tags)
    /\ gallery' = imgs

\* open_directory / open_selected_folder, then load_images(d): the session
\* is reset and a worker is started; the thumbnails and the tag list widget
\* stay as they are until a result is delivered.
OpenDirectory(d) ==
    /\ loads < MaxLoads
    /\ image_dir' = d
    /\ images' = <<>>
    /\ captions' = EmptyMap
    /\ selected_images' = {}
    /\ all_tags' = {}
    /\ tag_frequency' = EmptyMap
    /\ loads' = loads + 1
    /\ workers' = MapSet(workers, loads + 1,
                         [dir |-> d, pc |-> "walk", todo |-> <<>>,
                          loaded |-> <<>>, pend |-> <<>>])
    /\ lastOp' = Op("load_images", Text(d), {}, <<>>)
    /\ UNCHANGED <<filtered_images, filter_active, filter_mode,
                   focus_image_path, tag_list, gallery, files, texts,
                   results, include_subdirs, relocs, edits>>

\* load_images_thread, on a pool thread: os.walk lists the tree
WorkerWalk(w) ==
    /\ w \in DOMAIN workers
    /\ workers[w].pc = "walk"
    /\ workers' = [workers EXCEPT ![w].pc = "file",
                                  ![w].todo = ScanDir(workers[w].dir, files)]
    /\ lastOp' = Op("worker_walk", <<>>, {}, <<>>)
    /\ UNCHANGED <<images, captions, tag_frequency, all_tags, selected_images,
                   filtered_images, filter_active, filter_mode,
                   focus_image_path, tag_list, gallery, files, texts, results,
                   image_dir, include_subdirs, loads, relocs, edits>>

\* the tags the worker reads for image p
ReadCaption(p, txt) ==
    IF CaptionPath(p) \in DOMAIN txt THEN ParseCaption(txt[CaptionPath(p)])
    ELSE <<>>

\* one image of the walk: appended to loaded_images, its caption file read
\* and stored in self.captions
WorkerFile(w) ==
    /\ w \in DOMAIN workers
    /\ workers[w].pc = "file"
    /\ workers[w].todo # <<>>
    /\ LET p == Head(workers[w].todo)
           tags == ReadCaption(p, texts)
       IN /\ captions' = MapSet(captions, p, tags)
          /\ workers' = [workers EXCEPT
                            ![w].todo = Tail(workers[w].todo),
                            ![w].loaded = Append(workers[w].loaded, p),
                            ![w].pend = tags,
                            ![w].pc = IF tags = <<>> THEN "file" ELSE "add"]
          /\ lastOp' = Op("worker_file", <<>>, {p}, <<>>)
    /\ UNCHANGED <<images, tag_frequency, all_tags, selected_images,
                   filtered_images, filter_active, filter_mode,
                   focus_image_path, tag_list, gallery, files, texts, results,
                   image_dir, include_subdirs, loads, relocs, edits>>

\* self.all_tags.add(tag)
WorkerAdd(w) ==
    /\ w \in DOMAIN workers
    /\ workers[w].pc = "add"
    /\ all_tags' = all_tags \cup {Head(workers[w].pend)}
    /\ workers' = [workers EXCEPT ![w].pc = "inc"]
    /\ lastOp' = Op("worker_add", Head(workers[w].pend), {}, <<>>)
    /\ UNCHANGED <<images, captions, tag_frequency, selected_images,
                   filtered_images, filter_active, filter_mode,
                   focus_image_path, tag_list, gallery, files, texts, results,
                   image_dir, include_subdirs, loads, relocs, edits>>

\* self.tag_frequency[tag] += 1
WorkerInc(w) ==
    /\ w \in DOMAIN workers
    /\ workers[w].pc = "inc"
    /\ tag_frequency' = FreqInc(tag_frequency, Head(workers[w].pend))
    /\ workers' = [workers EXCEPT
                      ![w].pend = Tail(workers[w].pend),
                      ![w].pc = IF Tail(workers[w].pend) = <<>>
                                THEN "file" ELSE "add"]
    /\ lastOp' = Op("worker_inc", Head(workers[w].pend), {}, <<>>)
    /\ UNCHANGED <<images, captions, all_tags, selected_images,
                   filtered_images, filter_active, filter_mode,
                   focus_image_path, tag_list, gallery, files, texts, results,
                   image_dir, include_subdirs, loads, relocs, edits>>

\* the end of the walk: self.images = loaded_images, and Worker.run emits
\* the result signal, queued for the main thread
WorkerReturn(w) ==
    /\ w \in DOMAIN workers
    /\ workers[w].pc = "file"
    /\ workers[w].todo = <<>>
    /\ images' = workers[w].loaded
    /\ results' = Append(results, [id |-> w, imgs |-> workers[w].loaded])
    /\ workers' = MapDel(workers, w)
    /\ lastOp' = Op("worker_return", <<>>, {}, <<>>)
    /\ UNCHANGED <<captions, tag_frequency, all_tags, selected_images,
                   filtered_images, filter_active, filter_mode,
                   focus_image_path, tag_list, gallery, files, texts,
                   image_dir, include_subdirs, loads, relocs, edits>>

\* open() of the caption file of the next image raises (the file exists
\* but cannot be read): the image is already in loaded_images, the
\* exception leaves load_images_thread, and Worker.run emits the error
\* signal, to which load_images connected no slot; self.images is not
\* assigned and no result is queued
WorkerRaise(w) ==
    /\ w \in DOMAIN workers
    /\ workers[w].pc = "file"
    /\ workers[w].todo # <<>>
    /\ CaptionPath(Head(workers[w].todo)) \in DOMAIN texts
    /\ workers' = MapDel(workers, w)
    /\ lastOp' = Op("worker_raise", <<>>, {Head(workers[w].todo)}, <<>>)
    /\ UNCHANGED <<images, captions, tag_frequency, all_tags, selected_images,
                   filtered_images, filter_active, filter_mode,
                   focus_image_path, tag_list, gallery, files, texts, results,
                   image_dir, include_subdirs, loads, relocs, edits>>

\* the main thread runs the slot connected to the result signal:
\* populate_gallery(result)
DeliverResult ==
    /\ results # <<>>
    /\ PopulateGallery(Head(results).imgs, TagListFreq(tag_frequency, all_tags),
                       all_tags)
    /\ tag_frequency' = TagListFreq(tag_frequency, all_tags)
    /\ results' = Tail(results)
    /\ lastOp' = Op("populate_gallery", <<>>, Range(Head(results).imgs), <<>>)
    /\ UNCHANGED <<images, captions, all_tags, selected_images,
                   filtered_images, filter_active, filter_mode,
                   focus_image_path, files, texts, workers, image_dir,
                   include_subdirs, loads, relocs, edits>>

WorkerStep ==
    \E w \in DOMAIN workers :
        WorkerWalk(w) \/ WorkerFile(w) \/ WorkerAdd(w) \/ WorkerInc(w)
            \/ WorkerReturn(w)

\* no load is in flight: every worker has returned and every result has
\* been delivered
Quiescent == workers = EmptyMap /\ results = <<>>

\* the user ticks or clears the "Include Subdirectories" checkbox
ToggleIncludeSubdirs ==
    /\ include_subdirs' = ~include_subdirs
    /\ lastOp' = Op("include_subdirs_toggled", <<>>, {}, <<>>)
    /\ UNCHANGED <<images, captions, tag_frequency, all_tags, selected_images,
                   filtered_images, filter_active, filter_mode,
                   focus_image_path, tag_list, gallery, files, texts, workers,
                   results, image_dir, loads, relocs, edits>>

-----------------------------------------------------------------------------
(* Gallery, selection and filtering.                                       *)

ActiveViewIsCatalog == images

\* the image sequence shown: update_gallery's choice
ActiveView == IF filter_active THEN filtered_images ELSE images

\* update_gallery(): populate_gallery(filtered_images or images)
UpdateGallery(active, filtered, imgs) ==
    /\ PopulateGallery(IF active THEN filtered ELSE imgs,
                       TagListFreq(tag_frequency, all_tags), all_tags)
    /\ tag_frequency' = TagListFreq(tag_frequency, all_tags)

\* image_clicked(path) on one of the thumbnails shown
ImageClicked(p) ==
    /\ Contains(gallery, p)
    /\ selected_images' = IF p \in selected_images
                          THEN selected_images \ {p}
                          ELSE selected_images \cup {p}
    /\ focus_image_path' = p
    /\ lastOp' = Op("image_clicked", <<>>, {p}, <<>>)
    /\ UNCHANGED <<images, captions, tag_frequency, all_tags, filtered_images,
                   filter_active, filter_mode, tag_list, gallery, files, texts,
                   workers, results, image_dir,
                   include_subdirs, loads, relocs, edits>>

SelectAllImages ==
    /\ selected_images' = Range(ActiveView)
    /\ UpdateGallery(filter_active, filtered_images, images)
    /\ lastOp' = Op("select_all_images", <<>>, {}, <<>>)
    /\ UNCHANGED <<images, captions, all_tags, filtered_images, filter_active,
                   filter_mode, focus_image_path, files, texts, workers,
                   results, image_dir, include_subdirs, loads, relocs, edits>>

DeselectAllImages ==
    /\ selected_images' = {}
    /\ UpdateGallery(filter_active, filtered_images, images)
    /\ lastOp' = Op("deselect_all_images", <<>>, {}, <<>>)
    /\ UNCHANGED <<images, captions, all_tags, filtered_images, filter_active,
                   filter_mode, focus_image_path, files, texts, workers,
                   results, image_dir, include_subdirs, loads, relocs, edits>>

\* current_set.symmetric_difference(self.selected_images)
SymmetricDifference(A, B) == (A \ B) \cup (B \ A)

InvertSelection ==
    /\ selected_images' = SymmetricDifference(Range(ActiveView), selected_images)
    /\ UpdateGallery(filter_active, filtered_images, images)
    /\ lastOp' = Op("invert_selection", <<>>, selected_images, <<>>)
    /\ UNCHANGED <<images, captions, all_tags, filtered_images, filter_active,
                   filter_mode, focus_image_path, files, texts, workers,
                   results, image_dir, include_subdirs, loads, relocs, edits>>

ToggleFilterMode ==
    /\ filter_mode' = IF filter_mode = "Inclusive" THEN "Exclusive"
                      ELSE "Inclusive"
    /\ lastOp' = Op("toggle_filter_mode", <<>>, {}, <<>>)
    /\ UNCHANGED <<images, captions, tag_frequency, all_tags, selected_images,
                   filtered_images, filter_active, focus_image_path, tag_list,
                   gallery, files, texts, workers, results, image_dir,
                   include_subdirs, loads, relocs, edits>>

\* any(tag in image_tags for tag in selected_tags)
AnyTagIn(tags, image_tags) == \E t \in tags : Contains(image_tags, t)

\* all(tag in image_tags for tag in selected_tags)
AllTagsIn(tags, image_tags) == \A t \in tags : Contains(image_tags, t)

\* the loop of filter_images over self.images
FilterKeepsAllOf(mode, tags, image_tags) == AllTagsIn(tags, image_tags)

FilterKeepsAnyOf(mode, tags, image_tags) == AnyTagIn(tags, image_tags)

FilterKeeps(mode, tags, image_tags) ==
    IF mode = "Inclusive" THEN AnyTagIn(tags, image_tags)
    ELSE AllTagsIn(tags, image_tags)

FilterView(imgs, caps, mode, tags) ==
    SelectSeq(imgs, LAMBDA p : FilterKeeps(mode, tags, CaptionOf(caps, p)))

\* the loop of ignore_tags over self.images
IgnoreKeepsUnlessAllOf(tags, image_tags) == ~AllTagsIn(tags, image_tags)

IgnoreKeeps(tags, image_tags) == ~AnyTagIn(tags, image_tags)

IgnoreView(imgs, caps, tags) ==
    SelectSeq(imgs, LAMBDA p : IgnoreKeeps(tags, CaptionOf(caps, p)))

\* filter_images without the early return on an empty choice of tags
FilterImagesAlways(sel) ==
    /\ sel \subseteq tag_list
    /\ lastOp' = OpTags("filter_images", {TagOfItem(it) : it \in sel})
    /\ LET tags == {TagOfItem(it) : it \in sel}
           view == FilterView(images, captions, filter_mode, tags)
       IN /\ filtered_images' = view
          /\ filter_active' = TRUE
          /\ PopulateGallery(view, TagListFreq(tag_frequency, all_tags),
                             all_tags)
          /\ tag_frequency' = TagListFreq(tag_frequency, all_tags)
    /\ UNCHANGED <<images, captions, all_tags, selected_images, filter_mode,
                   focus_image_path, files, texts, workers, results, image_dir,
                   include_subdirs, loads, relocs, edits>>

\* filter_images with the items sel of the tag list selected
FilterImages(sel) ==
    /\ sel \subseteq tag_list
    /\ lastOp' = OpTags("filter_images", {TagOfItem(it) : it \in sel})
    /\ IF sel = {}
       THEN UNCHANGED <<filtered_images, filter_active, tag_list, gallery,
                        tag_frequency>>
       ELSE LET tags == {TagOfItem(it) : it \in sel}
                view == FilterView(images, captions, filter_mode, tags)
            IN /\ filtered_images' = view
               /\ filter_active' = TRUE
               /\ PopulateGallery(view, TagListFreq(tag_frequency, all_tags),
                                  all_tags)
               /\ tag_frequency' = TagListFreq(tag_frequency, all_tags)
    /\ UNCHANGED <<images, captions, all_tags, selected_images, filter_mode,
                   focus_image_path, files, texts, workers, results, image_dir,
                   include_subdirs, loads, relocs, edits>>

\* ignore_tags with the items sel of the tag list selected
IgnoreTags(sel) ==
    /\ sel \subseteq tag_list
    /\ lastOp' = OpTags("ignore_tags", {TagOfItem(it) : it \in sel})
    /\ IF sel = {}
       THEN UNCHANGED <<filtered_images, filter_active, tag_list, gallery,
                        tag_frequency>>
       ELSE LET tags == {TagOfItem(it) : it \in sel}
                view == IgnoreView(images, captions, tags)
            IN /\ filtered_images' = view
               /\ filter_active' = TRUE
               /\ PopulateGallery(view, TagListFreq(tag_frequency, all_tags),
                                  all_tags)
               /\ tag_frequency' = TagListFreq(tag_frequency, all_tags)
    /\ UNCHANGED <<images, captions, all_tags, selected_images, filter_mode,
                   focus_image_path, files, texts, workers, results, image_dir,
                   include_subdirs, loads, relocs, edits>>

ClearFilter ==
    /\ filter_active' = FALSE
    /\ filtered_images' = <<>>
    /\ PopulateGallery(images, TagListFreq(tag_frequency, all_tags), all_tags)
    /\ tag_frequency' = TagListFreq(tag_frequency, all_tags)
    /\ lastOp' = Op("clear_filter", <<>>, {}, <<>>)
    /\ UNCHANGED <<images, captions, all_tags, selected_images, filter_mode,
                   focus_image_path, files, texts, workers, results, image_dir,
                   include_subdirs, loads, relocs, edits>>

-----------------------------------------------------------------------------
(* Tag editing and caption files.                                          *)

\* the orders in which a loop may visit the members of a Python set
Orders(S) ==
    {o \in [1..Cardinality(S) -> S] : \A i, j \in 1..Cardinality(S) :
                                          o[i] = o[j] => i = j}

\* save_caption_file(p): ", ".join(tags) written to the caption file; a
\* failed write is caught and leaves the file as it was
SaveCaptionFile(txt, caps, p, fails) ==
    IF fails THEN txt
    ELSE MapSet(txt, CaptionPath(p), JoinTags(CaptionOf(caps, p)))

\* add_tag_to_selected that would undo the edit of an image whose caption
\* write fails
AddTagToImageRollback(st, p, tag, wfail) ==
    IF Contains(CaptionOf(st.caps, p), tag) \/ p \in wfail THEN st
    ELSE LET caps == MapSet(st.caps, p, Append(CaptionOf(st.caps, p), tag))
         IN [caps |-> caps,
             freq |-> FreqInc(st.freq, tag),
             tags |-> st.tags \cup {tag},
             txt |-> SaveCaptionFile(st.txt, caps, p, FALSE)]

AddTagToImageAlways(st, p, tag, wfail) ==
    LET caps == MapSet(st.caps, p, Append(CaptionOf(st.caps, p), tag))
    IN [caps |-> caps,
        freq |-> FreqInc(st.freq, tag),
        tags |-> st.tags \cup {tag},
        txt |-> SaveCaptionFile(st.txt, caps, p, p \in wfail)]

\* One pass of the loop of add_tag_to_selected over the images in order,
\* on st = [caps, freq, tags, txt]; wfail: the images whose write fails.
AddTagToImage(st, p, tag, wfail) ==
    IF Contains(CaptionOf(st.caps, p), tag) THEN st
    ELSE LET caps == MapSet(st.caps, p, Append(CaptionOf(st.caps, p), tag))
         IN [caps |-> caps,
             freq |-> FreqInc(st.freq, tag),
             tags |-> st.tags \cup {tag},
             txt |-> SaveCaptionFile(st.txt, caps, p, p \in wfail)]

RECURSIVE AddTagLoop(_, _, _, _)
AddTagLoop(st, order, tag, wfail) ==
    IF order = <<>> THEN st
    ELSE AddTagLoop(AddTagToImage(st, Head(order), tag, wfail), Tail(order),
                    tag, wfail)

\* add_tag_to_selected with text in the input field
AddTagToSelected(text, order, wfail) ==
    /\ edits < MaxEdits
    /\ order \in Orders(selected_images)
    /\ wfail \subseteq selected_images
    /\ edits' = edits + 1
    /\ lastOp' = [Op("add_tag_to_selected", Strip(text), selected_images, <<>>)
                     EXCEPT !.fail =
                         IF Strip(text) = <<>> THEN {}
                         ELSE {p \in wfail :
                                  ~Contains(CaptionOf(captions, p), Strip(text))}]
    /\ IF Strip(text) # <<>> /\ selected_images # {}
       THEN LET st == AddTagLoop([caps |-> captions, freq |-> tag_frequency,
                                  tags |-> all_tags, txt |-> texts],
                                 order, Strip(text), wfail)
            IN /\ captions' = st.caps
               /\ all_tags' = st.tags
               /\ texts' = st.txt
               /\ focus_image_path' = order[1]
               /\ tag_frequency' = TagListFreq(st.freq, st.tags)
               /\ tag_list' = TagListItems(st.freq, st.tags)
       ELSE UNCHANGED <<captions, all_tags, texts, focus_image_path,
                        tag_frequency, tag_list>>
    /\ UNCHANGED <<images, selected_images, filtered_images, filter_active,
                   filter_mode, gallery, files, workers, results, image_dir,
                   include_subdirs, loads, relocs>>

\* one pass of the loop of remove_tag_from_selected
RemoveTagFromImage(st, p, tag, wfail) ==
    IF ~Contains(CaptionOf(st.caps, p), tag) THEN st
    ELSE LET caps == MapSet(st.caps, p, RemoveFirst(st.caps[p], tag))
             freq == FreqDec(st.freq, tag)
         IN [caps |-> caps,
             freq |-> freq,
             tags |-> IF FreqOf(st.freq, tag) = 1 THEN st.tags \ {tag}
                      ELSE st.tags,
             txt |-> SaveCaptionFile(st.txt, caps, p, p \in wfail)]

RECURSIVE RemoveTagLoop(_, _, _, _)
RemoveTagLoop(st, order, tag, wfail) ==
    IF order = <<>> THEN st
    ELSE RemoveTagLoop(RemoveTagFromImage(st, Head(order), tag, wfail),
                       Tail(order), tag, wfail)

\* remove_tag_from_selected with text in the input field
RemoveTagFromSelected(text, order, wfail) ==
    /\ edits < MaxEdits
    /\ order \in Orders(selected_images)
    /\ wfail \subseteq selected_images
    /\ edits' = edits + 1
    /\ lastOp' = [Op("remove_tag_from_selected", Strip(text), selected_images,
                     <<>>)
                     EXCEPT !.fail =
                         IF Strip(text) = <<>> THEN {}
                         ELSE {p \in wfail :
                                  Contains(CaptionOf(captions, p), Strip(text))}]
    /\ IF Strip(text) # <<>> /\ selected_images # {}
       THEN LET st == RemoveTagLoop([caps |-> captions, freq |-> tag_frequency,
                                     tags |-> all_tags, txt |-> texts],
                                    order, Strip(text), wfail)
            IN /\ captions' = st.caps
               /\ all_tags' = st.tags
               /\ texts' = st.txt
               /\ focus_image_path' = order[1]
               /\ tag_frequency' = TagListFreq(st.freq, st.tags)
               /\ tag_list' = TagListItems(st.freq, st.tags)
       ELSE UNCHANGED <<captions, all_tags, texts, focus_image_path,
                        tag_frequency, tag_list>>
    /\ UNCHANGED <<images, selected_images, filtered_images, filter_active,
                   filter_mode, gallery, files, workers, results, image_dir,
                   include_subdirs, loads, relocs>>

-----------------------------------------------------------------------------
(* Sorting the tags of the focused image.                                  *)

\* the code point of a character (str comparison is by code point)
CharCode(c) ==
    CASE c = " " -> 32
      [] c = "," -> 44
      [] c = "a" -> 97
      [] c = "b" -> 98
      [] OTHER -> 127

\* s < t for two str values
RECURSIVE TagLess(_, _)
TagLess(s, t) ==
    IF t = <<>> THEN FALSE
    ELSE IF s = <<>> THEN TRUE
    ELSE IF Head(s) = Head(t) THEN TagLess(Tail(s), Tail(t))
    ELSE CharCode(Head(s)) < CharCode(Head(t))

\* key(s) < key(t) for the sort keys: (-freq, tag) in sort_tags_high,
\* (freq, tag) in sort_tags_low
KeyLess(high, freq, s, t) ==
    LET fs == FreqOf(freq, s)
        ft == FreqOf(freq, t)
    IN IF high THEN fs > ft \/ (fs = ft /\ TagLess(s, t))
       ELSE fs < ft \/ (fs = ft /\ TagLess(s, t))

\* an insertion that would keep one copy of a tag only
RECURSIVE InsertByKeyUnique(_, _, _, _)
InsertByKeyUnique(high, freq, x, s) ==
    IF s = <<>> THEN <<x>>
    ELSE IF Head(s) = x THEN s
    ELSE IF KeyLess(high, freq, x, Head(s))
         THEN <<x>> \o SelectSeq(s, LAMBDA y : y # x)
    ELSE <<Head(s)>> \o InsertByKeyUnique(high, freq, x, Tail(s))

\* sorted(tags, key = ...): a stable sort; x goes in front of the first
\* element whose key is greater than its own
RECURSIVE InsertByKey(_, _, _, _)
InsertByKey(high, freq, x, s) ==
    IF s = <<>> THEN <<x>>
    ELSE IF KeyLess(high, freq, x, Head(s)) THEN <<x>> \o s
    ELSE <<Head(s)>> \o InsertByKey(high, freq, x, Tail(s))

RECURSIVE SortedTags(_, _, _)
SortedTags(high, freq, tags) ==
    IF tags = <<>> THEN <<>>
    ELSE InsertByKey(high, freq, tags[Len(tags)],
                     SortedTags(high, freq, SubSeq(tags, 1, Len(tags) - 1)))

\* sort_tags_high (high = TRUE) and sort_tags_low (high = FALSE); wfail:
\* the write of the caption file fails
SortTags(high, wfail) ==
    /\ edits < MaxEdits
    /\ edits' = edits + 1
    /\ IF focus_image_path # NoPath /\ focus_image_path \in DOMAIN captions
       THEN LET caps == MapSet(captions, focus_image_path,
                               SortedTags(high, tag_frequency,
                                          captions[focus_image_path]))
            IN /\ captions' = caps
               /\ texts' = SaveCaptionFile(texts, caps, focus_image_path, wfail)
               /\ lastOp' = [Op(IF high THEN "sort_tags_high"
                                ELSE "sort_tags_low",
                                <<>>, {focus_image_path}, <<>>)
                               EXCEPT !.fail = IF wfail THEN {focus_image_path}
                                               ELSE {}]
       ELSE /\ UNCHANGED <<captions, texts>>
            /\ lastOp' = Op(IF high THEN "sort_tags_high" ELSE "sort_tags_low",
                            <<>>, {}, <<>>)
    /\ UNCHANGED <<images, tag_frequency, all_tags, selected_images,
                   filtered_images, filter_active, filter_mode,
                   focus_image_path, tag_list, gallery, files, workers,
                   results, image_dir, include_subdirs, loads, relocs>>

-----------------------------------------------------------------------------
(* Copy and move of the selection.                                         *)

\* f"{root}_{i}{ext}" in the destination directory
Numbered(dest, p, i) == Path(dest, p.root \o "_" \o ToString(i), p.ext)

\* The destination of image p: its base name, or with a counter appended
\* when a file of that name exists (os.path.exists on the files on disk).
DestImagePathOverwrite(dest, p, fs) == Path(dest, p.root, p.ext)

DestImagePath(dest, p, fs) ==
    IF Path(dest, p.root, p.ext) \notin DOMAIN fs
    THEN Path(dest, p.root, p.ext)
    ELSE LET n == CHOOSE i \in 1..(Cardinality(DOMAIN fs) + 1) :
                      /\ Numbered(dest, p, i) \notin DOMAIN fs
                      /\ \A j \in 1..(i - 1) : Numbered(dest, p, j) \in DOMAIN fs
         IN Numbered(dest, p, n)

\* dest_caption_path: the root of the destination image name + ".txt"
DestCaptionPath(dest, dp) == Path(dest, dp.root, ".txt")

\* shutil.copy2 leaves the source file where it is, shutil.move removes it
SourceAfterAlwaysRemoved(fs, p, move) == MapDel(fs, p)

SourceAfter(fs, p, move) == IF move THEN MapDel(fs, p) ELSE fs

\* One pass of the loop of copy_selection (move = FALSE) or move_selection
\* (move = TRUE) on st = [fs, txt, log]; ifail, cfail: the images whose
\* image file, caption file cannot be copied or moved.  shutil raises when
\* the source file is missing.
RelocateImage(st, dest, p, move, ifail, cfail) ==
    LET dp == DestImagePath(dest, p, st.fs)
        imageFails == p \in ifail \/ p \notin DOMAIN st.fs
        cp == CaptionPath(p)
        dcp == DestCaptionPath(dest, dp)
        hasCaption == cp \in DOMAIN st.txt
        captionFails == p \in cfail
        fs1 == MapSet(st.fs, dp, st.fs[p])
        txt1 == MapSet(st.txt, dcp, st.txt[cp])
    IN IF imageFails
       THEN [st EXCEPT !.log = Append(@, [src |-> p, dst |-> dp, ok |-> FALSE,
                                          cap |-> "skipped"])]
       ELSE [fs |-> SourceAfter(fs1, p, move),
             txt |-> IF hasCaption /\ ~captionFails
                     THEN SourceAfter(txt1, cp, move)
                     ELSE st.txt,
             log |-> Append(st.log,
                            [src |-> p, dst |-> dp, ok |-> TRUE,
                             cap |-> IF ~hasCaption THEN "none"
                                     ELSE IF captionFails THEN "failed"
                                     ELSE "ok"])]

RECURSIVE RelocateLoopAbort(_, _, _, _, _, _)
RelocateLoopAbort(st, dest, order, move, ifail, cfail) ==
    IF order = <<>> THEN st
    ELSE LET st1 == RelocateImage(st, dest, Head(order), move, ifail, cfail)
         IN IF st1.log[Len(st1.log)].cap \in {"skipped", "failed"} THEN st1
            ELSE RelocateLoopAbort(st1, dest, Tail(order), move, ifail, cfail)

RECURSIVE RelocateLoop(_, _, _, _, _, _)
RelocateLoop(st, dest, order, move, ifail, cfail) ==
    IF order = <<>> THEN st
    ELSE RelocateLoop(RelocateImage(st, dest, Head(order), move, ifail, cfail),
                      dest, Tail(order), move, ifail, cfail)

\* copy_selection; dest = "": the directory dialog was cancelled
CopySelection(dest, order, ifail, cfail) ==
    /\ relocs < MaxRelocs
    /\ order \in Orders(selected_images)
    /\ ifail \subseteq selected_images
    /\ cfail \subseteq selected_images
    /\ relocs' = relocs + 1
    /\ IF selected_images # {} /\ dest # ""
       THEN LET st == RelocateLoop([fs |-> files, txt |-> texts, log |-> <<>>],
                                   dest, order, FALSE, ifail, cfail)
            IN /\ files' = st.fs
               /\ texts' = st.txt
               /\ lastOp' = Op("copy_selection", Text(dest), selected_images,
                               st.log)
       ELSE /\ UNCHANGED <<files, texts>>
            /\ lastOp' = Op("copy_selection", Text(dest), selected_images, <<>>)
    /\ UNCHANGED <<images, captions, tag_frequency, all_tags, selected_images,
                   filtered_images, filter_active, filter_mode,
                   focus_image_path, tag_list, gallery, workers, results,
                   image_dir, include_subdirs, loads, edits>>

\* the images move_selection takes out of the session: images_to_remove
MovedImages(log) == {log[i].src : i \in {j \in 1..Len(log) : log[j].ok}}

\* for tag in tags: decrement, and delete at 0
RECURSIVE FreqDecAll(_, _)
FreqDecAll(freq, tags) ==
    IF tags = <<>> THEN freq
    ELSE FreqDecAll(FreqDec(freq, Head(tags)), Tail(tags))

\* the loop of move_selection over images_to_remove, on st = [imgs, caps,
\* freq]
ForgetImageKeepTags(st, p) ==
    [imgs |-> SelectSeq(st.imgs, LAMBDA q : q # p),
     caps |-> MapDel(st.caps, p),
     freq |-> st.freq]

ForgetImage(st, p) ==
    [imgs |-> RemoveFirst(st.imgs, p),
     caps |-> MapDel(st.caps, p),
     freq |-> IF p \in DOMAIN st.caps THEN FreqDecAll(st.freq, st.caps[p])
              ELSE st.freq]

RECURSIVE ForgetLoopAll(_, _)
ForgetLoopAll(st, log) ==
    IF log = <<>> THEN st
    ELSE ForgetLoopAll(ForgetImage(st, Head(log).src), Tail(log))

RECURSIVE ForgetLoop(_, _)
ForgetLoop(st, log) ==
    IF log = <<>> THEN st
    ELSE ForgetLoop(IF Head(log).ok THEN ForgetImage(st, Head(log).src) ELSE st,
                    Tail(log))

\* move_selection; dest = "": the directory dialog was cancelled
MoveSelection(dest, order, ifail, cfail) ==
    /\ relocs < MaxRelocs
    /\ order \in Orders(selected_images)
    /\ ifail \subseteq selected_images
    /\ cfail \subseteq selected_images
    /\ relocs' = relocs + 1
    /\ IF selected_images # {} /\ dest # ""
       THEN LET st == RelocateLoop([fs |-> files, txt |-> texts, log |-> <<>>],
                                   dest, order, TRUE, ifail, cfail)
                ss == ForgetLoop([imgs |-> images, caps |-> captions,
                                  freq |-> tag_frequency], st.log)
                tags == DOMAIN ss.freq
            IN /\ files' = st.fs
               /\ texts' = st.txt
               /\ images' = ss.imgs
               /\ captions' = ss.caps
               /\ tag_frequency' = ss.freq
               /\ all_tags' = tags
               /\ selected_images' = {}
               /\ filter_active' = FALSE
               /\ filtered_images' = <<>>
               /\ PopulateGallery(ss.imgs, ss.freq, tags)
               /\ lastOp' = Op("move_selection", Text(dest), selected_images,
                               st.log)
       ELSE /\ UNCHANGED <<files, texts, images, captions, tag_frequency,
                           all_tags, selected_images, filter_active,
                           filtered_images, tag_list, gallery>>
            /\ lastOp' = Op("move_selection", Text(dest), selected_images, <<>>)
    /\ UNCHANGED <<filter_mode, focus_image_path, workers, results, image_dir,
                   include_subdirs, loads, edits>>

\* a session whose destination directory is empty
EmptyDst == {[fs |-> EmptyMap, txt |-> EmptyMap]}

InitLoad == InitWorld(TopCaptionChoices, SubCaptionChoices, EmptyDst)

\* directory loads alone: up to MaxLoads loads, overlapping or not
NextLoad ==
    \/ \E d \in LoadDirs : OpenDirectory(d)
    \/ WorkerStep
    \/ DeliverResult

SpecLoad == InitLoad /\ [][NextLoad]_vars

\* a first load, run to completion with nothing else going on
LoadOnce ==
    \/ loads = 0 /\ \E d \in LoadDirs : OpenDirectory(d)
    \/ WorkerStep
    \/ DeliverResult

Loaded == loads >= 1 /\ Quiescent

\* what the user may type into a tag field
TagInputs == { <<"a">>, <<" ", "b">>, <<"a", ",", "b">>, <<" ">> }

\* where a copy or move may go ("": no directory chosen)
DestChoices == {"", DestDir}

Next ==
    \/ \E d \in LoadDirs : OpenDirectory(d)
    \/ ToggleIncludeSubdirs
    \/ \E w \in DOMAIN workers : WorkerRaise(w)
    \/ WorkerStep
    \/ DeliverResult
    \/ \E p \in SourceImages : ImageClicked(p)
    \/ SelectAllImages
    \/ DeselectAllImages
    \/ InvertSelection
    \/ ToggleFilterMode
    \/ \E sel \in SUBSET tag_list : FilterImages(sel)
    \/ \E sel \in SUBSET tag_list : IgnoreTags(sel)
    \/ ClearFilter
    \/ \E text \in TagInputs, order \in Orders(selected_images),
          wfail \in SUBSET selected_images :
            AddTagToSelected(text, order, wfail)
    \/ \E text \in TagInputs, order \in Orders(selected_images),
          wfail \in SUBSET selected_images :
            RemoveTagFromSelected(text, order, wfail)
    \/ \E high \in BOOLEAN, wfail \in BOOLEAN : SortTags(high, wfail)
    \/ \E dest \in DestChoices, order \in Orders(selected_images),
          ifail \in SUBSET selected_images, cfail \in SUBSET selected_images :
            CopySelection(dest, order, ifail, cfail)
    \/ \E dest \in DestChoices, order \in Orders(selected_images),
          ifail \in SUBSET selected_images, cfail \in SUBSET selected_images :
            MoveSelection(dest, order, ifail, cfail)

Spec == Init /\ [][Next]_vars

\* the caption files of a session that is about tag edits: top/cat.txt is
\* missing or repeats a tag, sub/cat.txt has blanks and an empty piece
EditTopChoices == { <<>>, <<<<"a", ",", "a">>>> }

EditSubChoices == { <<<<" ", "a", " ", ",", ",", "b">>>> }

InitEdit == InitWorld(EditTopChoices, EditSubChoices, EmptyDst)

\* tag edits after a completed load: the images are selected by clicks and
\* select-all, tags are added and removed
NoFailure == {{}}

NextEdit ==
    \/ LoadOnce
    \/ Loaded /\ \E p \in SourceImages : ImageClicked(p)
    \/ Loaded /\ SelectAllImages
    \/ Loaded /\ \E text \in TagInputs, order \in Orders(selected_images),
                    wfail \in NoFailure :
                      AddTagToSelected(text, order, wfail)
    \/ Loaded /\ \E text \in TagInputs, order \in Orders(selected_images),
                    wfail \in NoFailure :
                      RemoveTagFromSelected(text, order, wfail)

SpecEdit == InitEdit /\ [][NextEdit]_vars

-----------------------------------------------------------------------------
(* The tag index against the captions.                                     *)

\* every tag the session knows of
KnownTags ==
    DOMAIN tag_frequency \cup all_tags
        \cup UNION {Range(captions[p]) : p \in DOMAIN captions}

\* the images whose caption contains t
ImagesWith(caps, t) == {p \in DOMAIN caps : Contains(caps[p], t)}

\* C1: after a completed load and any sequence of add_tag_to_selected and
\* remove_tag_from_selected calls, tag_frequency[t] is the number of images
\* whose caption contains t, and no tag of all_tags has the count 0.
C1_FrequencyCountsImages ==
    Loaded =>
        /\ \A t \in KnownTags :
              FreqOf(tag_frequency, t) = Cardinality(ImagesWith(captions, t))
        /\ \A t \in all_tags : FreqOf(tag_frequency, t) # 0

-----------------------------------------------------------------------------
(* Overlapping loads.                                                      *)

\* what one load of directory d leaves in the session
ScanCaptions(d) ==
    [p \in Range(ScanDir(d, files)) |-> ReadCaption(p, texts)]

RECURSIVE SumOccurrences(_, _, _)
SumOccurrences(caps, ps, t) ==
    IF ps = {} THEN 0
    ELSE LET p == CHOOSE q \in ps : TRUE
         IN Occurrences(caps[p], t) + SumOccurrences(caps, ps \ {p}, t)

\* C2: when load B is requested before load A's worker has finished, the
\* catalog and the gallery hold exactly B's scan result once both have
\* completed.
C2_LastLoadWins ==
    (loads = 2 /\ Quiescent) =>
        /\ images = ScanDir(image_dir, files)
        /\ gallery = ScanDir(image_dir, files)

\* C3: when two loads overlap, captions, tag_frequency and all_tags hold
\* only the later load's data once both workers have finished: each scanned
\* image contributes once to the count of each tag it carries.
C3_OnlyLaterLoadData ==
    (loads = 2 /\ Quiescent) =>
        LET caps == ScanCaptions(image_dir)
        IN /\ captions = caps
           /\ \A t \in KnownTags :
                 FreqOf(tag_frequency, t) = SumOccurrences(caps, DOMAIN caps, t)
           /\ all_tags = UNION {Range(caps[p]) : p \in DOMAIN caps}

\* the steps of load_images_thread on the pool thread
WorkerOps ==
    {"worker_walk", "worker_file", "worker_add", "worker_inc", "worker_return"}

\* C4: a load worker does not modify images, captions, tag_frequency or
\* all_tags while it runs; they change only on the main thread.
C4_WorkerLeavesSessionAlone ==
    [][lastOp'.name \in WorkerOps =>
          UNCHANGED <<images, captions, tag_frequency, all_tags>>]_vars

-----------------------------------------------------------------------------
(* Filtering.                                                              *)

\* what the user may type into a tag field when only the tags matter
PlainTagInputs == { <<"a">>, <<" ", "b">> }

\* the caption files of a session that is about filtering
FilterTopChoices == { <<<<"a", ",", " ", "b">>>> }

FilterSubChoices == { <<>>, <<<<"b">>>> }

InitFilter == InitWorld(FilterTopChoices, FilterSubChoices, EmptyDst)

\* filters after a completed load, with up to MaxFilterEdits tag edits
\* that make the captions of the images differ
NextFilter ==
    \/ LoadOnce
    \/ Loaded /\ \E p \in SourceImages : ImageClicked(p)
    \/ Loaded /\ ToggleFilterMode
    \/ Loaded /\ \E sel \in SUBSET tag_list : FilterImages(sel)
    \/ Loaded /\ \E sel \in SUBSET tag_list : IgnoreTags(sel)
    \/ Loaded /\ ClearFilter
    \/ Loaded /\ edits < MaxFilterEdits
              /\ \E text \in PlainTagInputs, order \in Orders(selected_images),
                    wfail \in NoFailure :
                      AddTagToSelected(text, order, wfail)
    \/ Loaded /\ edits < MaxFilterEdits
              /\ \E text \in PlainTagInputs, order \in Orders(selected_images),
                    wfail \in NoFailure :
                      RemoveTagFromSelected(text, order, wfail)

SpecFilter == InitFilter /\ [][NextFilter]_vars

\* the tags of image p as a set
TagSet(p) == Range(CaptionOf(captions, p))

\* filter_images has just run with a non-empty choice of tags
Filtered(mode) ==
    lastOp.name = "filter_images" /\ lastOp.tags # {} /\ filter_mode = mode

\* C8: with mode Inclusive and a non-empty tag set T, filter_images sets
\* the filtered view to the catalog images whose caption contains at least
\* one tag of T, in catalog order, and marks the filter active.
C8_InclusiveFilter ==
    Filtered("Inclusive") =>
        /\ filter_active
        /\ filtered_images =
               SelectSeq(images, LAMBDA p : TagSet(p) \cap lastOp.tags # {})

C8_Witness ==
    /\ Filtered("Inclusive")
    /\ Cardinality(lastOp.tags) = 2
    /\ Len(filtered_images) = 2
    /\ Len(images) = 3
    /\ \E p \in Range(filtered_images) : ~(lastOp.tags \subseteq TagSet(p))

\* C9: with mode Exclusive and a non-empty tag set T, filter_images sets
\* the filtered view to the catalog images whose caption contains every tag
\* of T, in catalog order.
C9_ExclusiveFilter ==
    Filtered("Exclusive") =>
        /\ filter_active
        /\ filtered_images =
               SelectSeq(images, LAMBDA p : lastOp.tags \subseteq TagSet(p))

C9_Witness ==
    /\ Filtered("Exclusive")
    /\ Cardinality(lastOp.tags) = 2
    /\ filtered_images # <<>>
    /\ \E p \in Range(images) :
          /\ ~Contains(filtered_images, p)
          /\ TagSet(p) \cap lastOp.tags # {}

\* view is the complement of other within the catalog, in catalog order
ComplementInCatalog(view, other) ==
    /\ Range(view) \cap Range(other) = {}
    /\ Range(view) \cup Range(other) = Range(images)
    /\ view = SelectSeq(images, LAMBDA p : ~Contains(other, p))

\* C10: for a non-empty tag set T the view of ignore_tags(T) is the
\* complement, within the catalog, of the view of the Inclusive filter on
\* T: the two are disjoint and their union is the catalog.
C10_IgnoreComplementsInclusive ==
    /\ (lastOp.name = "ignore_tags" /\ lastOp.tags # {}) =>
           ComplementInCatalog(filtered_images,
               FilterView(images, captions, "Inclusive", lastOp.tags))
    /\ Filtered("Inclusive") =>
           ComplementInCatalog(filtered_images,
               IgnoreView(images, captions, lastOp.tags))

C10_Witness ==
    /\ lastOp.name = "ignore_tags"
    /\ Cardinality(lastOp.tags) = 2
    /\ filtered_images # <<>>
    /\ filtered_images # images
    /\ \E p \in Range(images) :
          ~Contains(filtered_images, p) /\ ~(lastOp.tags \subseteq TagSet(p))

-----------------------------------------------------------------------------
(* Copy and move.                                                          *)

\* the files of a session that is about copying and moving: the two
\* cat.png carry different captions (top/cat.txt repeats its tag), the
\* destination is empty or holds a cat.png with its cat.txt
RelocTopChoices == { <<<<"a", ",", "a">>>> }

RelocSubChoices == { <<<<"b">>>> }

RelocDstChoices ==
    { [fs |-> EmptyMap, txt |-> EmptyMap],
      [fs |-> [p \in {DstCatPng} |-> "picOld"],
       txt |-> [p \in {DstCatTxt} |-> OldText]] }

InitReloc == InitWorld(RelocTopChoices, RelocSubChoices, RelocDstChoices)

\* the file operations that fail in one batch: none, or those of one image
AtMostOne(S) == {{}} \cup {{x} : x \in S}

\* the file operations that fail in one batch of SpecReloc: none, the
\* image of one image, or the caption of one image
OneFailure(S) ==
    {<<{}, {}>>} \cup {<<{x}, {}>> : x \in S} \cup {<<{}, {x}>> : x \in S}

\* copies and moves of a selection made after a completed load
NextReloc ==
    \/ LoadOnce
    \/ Loaded /\ \E p \in SourceImages : ImageClicked(p)
    \/ Loaded /\ \E order \in Orders(selected_images),
                    fail \in OneFailure(selected_images) :
                      CopySelection(DestDir, order, fail[1], fail[2])
    \/ Loaded /\ \E order \in Orders(selected_images),
                    fail \in OneFailure(selected_images) :
                      MoveSelection(DestDir, order, fail[1], fail[2])
    \/ Loaded /\ \E order \in Orders(selected_images) :
                      CopySelection("", order, {}, {})
    \/ Loaded /\ \E order \in Orders(selected_images) :
                      MoveSelection("", order, {}, {})

SpecReloc == InitReloc /\ [][NextReloc]_vars

\* tag_frequency counts, for every tag, the images whose caption holds it
CountsImages(caps, freq) ==
    \A t \in DOMAIN freq \cup UNION {Range(caps[p]) : p \in DOMAIN caps} :
        FreqOf(freq, t) = Cardinality(ImagesWith(caps, t))

\* C5: after move_selection every image that was moved is absent from
\* images, captions and selected_images; tag_frequency has been decremented
\* once for each tag entry of the captions of the moved images; a tag whose
\* last occurrence was moved away is absent from tag_frequency and
\* all_tags; and if tag_frequency counted the images containing each tag
\* before the move, it does so again after it.
C5_MoveForgetsMovedImages ==
    [][lastOp'.name = "move_selection" =>
          LET moved == MovedImages(lastOp'.log)
              carried == [p \in moved \cap DOMAIN captions |-> captions[p]]
          IN /\ \A p \in moved :
                    /\ ~Contains(images', p)
                    /\ p \notin DOMAIN captions'
                    /\ p \notin selected_images'
             /\ \A t \in KnownTags :
                    /\ FreqOf(tag_frequency', t) =
                           FreqOf(tag_frequency, t)
                               - SumOccurrences(carried, DOMAIN carried, t)
                    /\ FreqOf(tag_frequency', t) = 0 =>
                           t \notin DOMAIN tag_frequency' /\ t \notin all_tags'
             /\ CountsImages(captions, tag_frequency) =>
                    CountsImages(captions', tag_frequency')]_vars

\* a move took some images and left others, and the last occurrence of a
\* tag went with a moved image while another tag is still known
C5_Witness ==
    /\ lastOp.name = "move_selection"
    /\ images # <<>>
    /\ all_tags # {}
    /\ \E i \in 1..Len(lastOp.log) :
          /\ lastOp.log[i].ok
          /\ lastOp.log[i].cap = "ok"
          /\ \E t \in Range(ParseCaption(
                        texts[DestCaptionPath(DestDir, lastOp.log[i].dst)])) :
                t \notin all_tags

\* C6: copy_selection changes none of images, captions, tag_frequency,
\* all_tags, selected_images, filter_active and filtered_images, whether
\* the copies succeed or fail, and every source image and source caption
\* file stays in place.
C6_CopyLeavesSessionAndSources ==
    [][lastOp'.name = "copy_selection" =>
          /\ UNCHANGED <<images, captions, tag_frequency, all_tags,
                         selected_images, filter_active, filtered_images>>
          /\ \A p \in DOMAIN files :
                p \in DOMAIN files' /\ files'[p] = files[p]
          /\ \A p \in DOMAIN texts :
                p.dir # DestDir => p \in DOMAIN texts' /\ texts'[p] = texts[p]]_vars

\* a copy of several images of which one succeeded and one failed
C6_Witness ==
    /\ lastOp.name = "copy_selection"
    /\ selected_images # {}
    /\ \E i, j \in 1..Len(lastOp.log) :
          /\ lastOp.log[i].ok /\ lastOp.log[i].cap = "ok"
          /\ ~lastOp.log[j].ok

\* the k-th image of the batch finds name taken: a file of that name was
\* there before the batch, or an earlier image of the batch was put there
TakenAt(log, k, name) ==
    \/ name \in DOMAIN files
    \/ \E j \in 1..(k - 1) : log[j].ok /\ log[j].dst = name

\* the last image of the batch whose caption went to the caption path cp
LastWriter(log, cp) ==
    CHOOSE k \in 1..Len(log) :
        /\ log[k].cap = "ok" /\ DestCaptionPath(DestDir, log[k].dst) = cp
        /\ \A j \in (k + 1)..Len(log) :
              ~(log[j].cap = "ok" /\ DestCaptionPath(DestDir, log[j].dst) = cp)

\* C7: in a copy or move each image goes to its own base name when no file
\* of that name exists in the destination at that moment, and otherwise to
\* root_n.ext for the smallest n >= 1 that is free; its caption goes to the
\* root of that name + ".txt".  Two images cat.png from different
\* directories, relocated into an empty destination, end as cat.png and
\* cat_1.png with cat.txt and cat_1.txt holding their captions.
C7_CollisionFreeNames ==
    [][(lastOp'.name \in {"copy_selection", "move_selection"}
           /\ lastOp'.arg = Text(DestDir)) =>
          LET log == lastOp'.log
          IN \A k \in 1..Len(log) :
                LET e == log[k]
                    base == Path(DestDir, e.src.root, e.src.ext)
                    cp == Path(DestDir, e.dst.root, ".txt")
                IN /\ ~TakenAt(log, k, base) => e.dst = base
                   /\ TakenAt(log, k, base) =>
                          \E n \in 1..(Len(log) + Cardinality(DOMAIN files)) :
                              /\ e.dst = Numbered(DestDir, e.src, n)
                              /\ ~TakenAt(log, k, e.dst)
                              /\ \A m \in 1..(n - 1) :
                                    TakenAt(log, k, Numbered(DestDir, e.src, m))
                   /\ e.ok => /\ e.dst \in DOMAIN files'
                              /\ files'[e.dst] = files[e.src]
                   /\ e.cap = "ok" =>
                          /\ cp \in DOMAIN texts'
                          /\ texts'[cp] =
                                 texts[CaptionPath(log[LastWriter(log, cp)].src)]]_vars

\* the two cat.png were relocated into an empty destination: they are
\* cat.png and cat_1.png there, with two different captions cat.txt and
\* cat_1.txt
C7_Witness ==
    /\ lastOp.name \in {"copy_selection", "move_selection"}
    /\ lastOp.imgs = {TopCatPng, SubCatPng}
    /\ {p \in DOMAIN files : p.dir = DestDir} = {DstCatPng, DstCat1Png}
    /\ {files[DstCatPng], files[DstCat1Png]} = {"picTopCatPng", "picSubCatPng"}
    /\ {p \in DOMAIN texts : p.dir = DestDir}
           = {DstCatTxt, Path(DestDir, "cat_1", ".txt")}
    /\ \A i \in 1..2 :
          /\ lastOp.log[i].cap = "ok"
          /\ ParseCaption(texts[DestCaptionPath(DestDir, lastOp.log[i].dst)])
                 = IF lastOp.log[i].src = SubCatPng THEN << <<"b">> >>
                   ELSE captions[TopCatPng]

-----------------------------------------------------------------------------
(* Tag edits.                                                              *)

\* add_tag_to_selected has just run with a tag and a non-empty selection
Added == lastOp.name = "add_tag_to_selected" /\ lastOp.arg # <<>>
             /\ lastOp.imgs # {}

\* C11: add_tag_to_selected with tag t puts t exactly once into the caption
\* of every selected image that did not hold it and raises tag_frequency[t]
\* by one for each such image; called again with the same tag and the same
\* selection it changes none of captions, tag_frequency and all_tags.
C11_AddTwiceIsAddOnce ==
    [][(lastOp'.name = "add_tag_to_selected" /\ lastOp'.arg # <<>>) =>
          LET t == lastOp'.arg
              fresh == {p \in lastOp'.imgs :
                            ~Contains(CaptionOf(captions, p), t)}
          IN /\ \A p \in fresh : Occurrences(captions'[p], t) = 1
             /\ FreqOf(tag_frequency', t) =
                    FreqOf(tag_frequency, t) + Cardinality(fresh)
             /\ (Added /\ lastOp.arg = t /\ lastOp.imgs = lastOp'.imgs) =>
                    UNCHANGED <<captions, tag_frequency, all_tags>>]_vars

\* the tag "a,b", which no caption file yields, was added to all three
\* images and then added to them again
C11_Witness ==
    /\ Added
    /\ edits = 2
    /\ lastOp.arg = <<"a", ",", "b">>
    /\ Len(images) = 3
    /\ lastOp.imgs = Range(images)
    /\ \A p \in lastOp.imgs : Occurrences(captions[p], lastOp.arg) = 1
    /\ FreqOf(tag_frequency, lastOp.arg) = 3

-----------------------------------------------------------------------------
(* Selection.                                                              *)

\* selection and filtering after a completed load: clicks on the
\* thumbnails shown, select-all, deselect-all, invert, filter, ignore and
\* clear-filter
NextSelect ==
    \/ LoadOnce
    \/ Loaded /\ \E p \in SourceImages : ImageClicked(p)
    \/ Loaded /\ SelectAllImages
    \/ Loaded /\ DeselectAllImages
    \/ Loaded /\ InvertSelection
    \/ Loaded /\ ToggleFilterMode
    \/ Loaded /\ \E sel \in SUBSET tag_list : FilterImages(sel)
    \/ Loaded /\ \E sel \in SUBSET tag_list : IgnoreTags(sel)
    \/ Loaded /\ ClearFilter

SpecSelect == InitFilter /\ [][NextSelect]_vars

\* C12: selected_images is a subset of the active image sequence, of
\* filtered_images while a filter is active and of images otherwise.
C12_SelectionWithinActiveView ==
    selected_images \subseteq
        (IF filter_active THEN Range(filtered_images) ELSE Range(images))

\* C13: invert_selection sets selected_images to the symmetric difference
\* of the previous selection and the active view; a second
\* invert_selection right after the first restores the selection the first
\* one found.
C13_InvertIsSymmetricDifference ==
    [][lastOp'.name = "invert_selection" =>
          LET view == IF filter_active THEN Range(filtered_images)
                      ELSE Range(images)
          IN /\ selected_images' =
                    (selected_images \ view) \cup (view \ selected_images)
             /\ lastOp.name = "invert_selection" =>
                    selected_images' = lastOp.imgs]_vars

\* an inversion under a filter whose view is a proper part of the catalog,
\* with an image of the view and an image outside it selected before
C13_Witness ==
    /\ lastOp.name = "invert_selection"
    /\ filter_active
    /\ filtered_images # <<>>
    /\ Range(filtered_images) # Range(images)
    /\ lastOp.imgs \cap Range(filtered_images) # {}
    /\ lastOp.imgs \ Range(filtered_images) # {}
    /\ Range(filtered_images) \ lastOp.imgs # {}
    /\ selected_images # SymmetricDifference(Range(images), lastOp.imgs)

-----------------------------------------------------------------------------
(* Loads that follow one another.                                          *)

\* one load after the other, each started when no load is in flight; after
\* a completed load images are clicked and a tag is added, so that the next
\* load finds a session that holds something
NextReload ==
    \/ Quiescent /\ \E d \in LoadDirs : OpenDirectory(d)
    \/ WorkerStep
    \/ DeliverResult
    \/ Loaded /\ loads < MaxLoads /\ \E p \in SourceImages : ImageClicked(p)
    \/ Loaded /\ loads < MaxLoads /\ edits < MaxFilterEdits
              /\ \E text \in PlainTagInputs, order \in Orders(selected_images),
                    wfail \in NoFailure :
                      AddTagToSelected(text, order, wfail)

SpecReload == InitLoad /\ [][NextReload]_vars

\* the result of a load has just been delivered and no load is in flight
LoadCompleted == lastOp.name = "populate_gallery" /\ Quiescent

\* C14: when a load that no other load overlaps has completed, images is
\* the scan result, captions maps every scanned image to the tags parsed
\* from its caption file (none when the file is missing), tag_frequency[t]
\* is the number of scanned images whose caption contains t, and all_tags
\* is the set of the tags of the captions.
C14_LoadReplacesSession ==
    LoadCompleted =>
        LET caps == ScanCaptions(image_dir)
        IN /\ images = ScanDir(image_dir, files)
           /\ captions = caps
           /\ \A t \in KnownTags :
                 FreqOf(tag_frequency, t) = Cardinality(ImagesWith(caps, t))
           /\ all_tags = UNION {Range(caps[p]) : p \in DOMAIN caps}

-----------------------------------------------------------------------------
(* Captions in memory and on disk.                                         *)

\* what the load routine reads back from the file save_caption_file
\* writes for the caption tags
ReadBack(tags) == ParseCaption(JoinTags(tags))

\* C15: every caption in memory, written with save_caption_file and parsed
\* back by the load routine, yields the same set of tags.
C15_RoundTrip ==
    \A p \in DOMAIN captions :
        Range(ReadBack(captions[p])) = Range(captions[p])

\* C16: every caption in memory consists of trimmed, non-empty tags and
\* holds no tag more than once.
C16_CaptionsWellFormed ==
    \A p \in DOMAIN captions :
        \A i \in 1..Len(captions[p]) :
            /\ captions[p][i] # <<>>
            /\ Strip(captions[p][i]) = captions[p][i]
            /\ Occurrences(captions[p], captions[p][i]) = 1

-----------------------------------------------------------------------------
(* The tag index.                                                          *)

\* C17: when no load is in flight, tag_frequency holds no entry with a
\* count <= 0 and all_tags is the key set of tag_frequency.
C17_NoZeroCountsKeysAreAllTags ==
    Quiescent =>
        /\ \A t \in DOMAIN tag_frequency : tag_frequency[t] > 0
        /\ all_tags = DOMAIN tag_frequency

-----------------------------------------------------------------------------
(* Failures in a move.                                                     *)

\* the images of a batch whose image file could not be moved or copied
FailedImages(log) == {log[i].src : i \in {j \in 1..Len(log) : ~log[j].ok}}

\* C18: an image whose file move failed stays in images with its caption,
\* its source file stays in place and its tags are not taken off
\* tag_frequency: the counts drop by the tag entries of the moved images
\* only, and images loses exactly the moved images.
C18_FailedMoveKeepsImage ==
    [][lastOp'.name = "move_selection" =>
          LET moved == MovedImages(lastOp'.log)
              failed == FailedImages(lastOp'.log)
              carried == [p \in moved \cap DOMAIN captions |-> captions[p]]
          IN /\ \A p \in failed :
                    /\ Contains(images, p) => Contains(images', p)
                    /\ p \in DOMAIN captions =>
                           p \in DOMAIN captions' /\ captions'[p] = captions[p]
                    /\ p \in DOMAIN files =>
                           p \in DOMAIN files' /\ files'[p] = files[p]
             /\ images' = SelectSeq(images, LAMBDA p : p \notin moved)
             /\ \A t \in KnownTags :
                    FreqOf(tag_frequency', t) =
                        FreqOf(tag_frequency, t)
                            - SumOccurrences(carried, DOMAIN carried, t)]_vars

\* a move in which one image went and another, which shares a tag with it,
\* failed and stayed
C18_Witness ==
    /\ lastOp.name = "move_selection"
    /\ \E i, j \in 1..Len(lastOp.log) :
          LET kept == lastOp.log[j].src
          IN /\ lastOp.log[i].ok
             /\ lastOp.log[i].cap = "ok"
             /\ ~lastOp.log[j].ok
             /\ Contains(images, kept)
             /\ kept \in DOMAIN files
             /\ captions[kept] # <<>>
             /\ \A t \in Range(captions[kept]) : FreqOf(tag_frequency, t) = 1
             /\ Range(captions[kept]) \cap Range(ParseCaption(
                    texts[DestCaptionPath(DestDir, lastOp.log[i].dst)])) # {}

\* C19: after move_selection a selected image whose move failed is still
\* selected.
C19_FailedMoveStaysSelected ==
    lastOp.name = "move_selection" =>
        FailedImages(lastOp.log) \subseteq selected_images

-----------------------------------------------------------------------------
(* Batches with failures.                                                  *)

\* the files of a session in which batches fail half way
BatchTopChoices == { <<<<"a", ",", " ", "b">>>> }

InitBatch == InitWorld(BatchTopChoices, RelocSubChoices, EmptyDst)

\* copies, moves and bulk tag edits of a selection made after a completed
\* load, in which the file operation of one image may fail; MaxBatches
\* batches in all
NextBatch ==
    \/ LoadOnce
    \/ Loaded /\ \E p \in SourceImages : ImageClicked(p)
    \/ Loaded /\ relocs + edits < MaxBatches
              /\ \E order \in Orders(selected_images),
                    ifail \in AtMostOne(selected_images),
                    cfail \in AtMostOne(selected_images) :
                      CopySelection(DestDir, order, ifail, cfail)
    \/ Loaded /\ relocs + edits < MaxBatches
              /\ \E order \in Orders(selected_images),
                    ifail \in AtMostOne(selected_images),
                    cfail \in AtMostOne(selected_images) :
                      MoveSelection(DestDir, order, ifail, cfail)
    \/ Loaded /\ relocs + edits < MaxBatches
              /\ \E text \in PlainTagInputs, order \in Orders(selected_images),
                    wfail \in AtMostOne(selected_images) :
                      AddTagToSelected(text, order, wfail)
    \/ Loaded /\ relocs + edits < MaxBatches
              /\ \E text \in PlainTagInputs, order \in Orders(selected_images),
                    wfail \in AtMostOne(selected_images) :
                      RemoveTagFromSelected(text, order, wfail)

SpecBatch == InitBatch /\ [][NextBatch]_vars

\* C20: copy_selection and move_selection visit every selected image
\* exactly once whatever fails for the other images, and every image whose
\* file operation succeeded is at its destination; add_tag_to_selected and
\* remove_tag_from_selected edit the caption of every selected image
\* whatever caption write fails.
C20_BatchRunsToCompletion ==
    [][/\ (lastOp'.name \in {"copy_selection", "move_selection"}
              /\ lastOp'.arg = Text(DestDir)) =>
             LET log == lastOp'.log
             IN /\ Len(log) = Cardinality(lastOp'.imgs)
                /\ {log[i].src : i \in 1..Len(log)} = lastOp'.imgs
                /\ \A i \in 1..Len(log) :
                      /\ log[i].ok =>
                             /\ log[i].dst \in DOMAIN files'
                             /\ files'[log[i].dst] = files[log[i].src]
                      /\ log[i].cap = "ok" =>
                             DestCaptionPath(DestDir, log[i].dst)
                                 \in DOMAIN texts'
       /\ (lastOp'.name = "add_tag_to_selected" /\ lastOp'.arg # <<>>) =>
             \A p \in lastOp'.imgs :
                 Occurrences(captions'[p], lastOp'.arg) =
                     IF Contains(CaptionOf(captions, p), lastOp'.arg)
                     THEN Occurrences(captions[p], lastOp'.arg) ELSE 1
       /\ (lastOp'.name = "remove_tag_from_selected" /\ lastOp'.arg # <<>>) =>
             \A p \in lastOp'.imgs :
                 Occurrences(CaptionOf(captions', p), lastOp'.arg) =
                     IF Contains(CaptionOf(captions, p), lastOp'.arg)
                     THEN Occurrences(captions[p], lastOp'.arg) - 1 ELSE 0]_vars

\* a copy or move of three images: the image file of the first failed, the
\* caption of the second failed, and the third went through with its
\* caption
C20_Witness ==
    /\ lastOp.name \in {"copy_selection", "move_selection"}
    /\ Len(lastOp.log) = 3
    /\ ~lastOp.log[1].ok
    /\ lastOp.log[2].ok /\ lastOp.log[2].cap = "failed"
    /\ lastOp.log[3].ok /\ lastOp.log[3].cap = "ok"
    /\ lastOp.log[3].dst \in DOMAIN files

-----------------------------------------------------------------------------
(* Tag edits and sorts whose caption write may fail.                       *)

\* the caption files of a session that is about sorting: the tags of
\* top/cat.txt are out of order and, depending on sub/cat.txt, have equal
\* or different frequencies
SortTopChoices == { <<<<"b", ",", "a">>>> }

SortSubChoices == { <<>>, <<<<"b">>>> }

InitSort == InitWorld(SortTopChoices, SortSubChoices, EmptyDst)

\* tag edits and sorts after a completed load; any caption write may fail
NextSort ==
    \/ LoadOnce
    \/ Loaded /\ \E p \in SourceImages : ImageClicked(p)
    \/ Loaded /\ \E text \in PlainTagInputs, order \in Orders(selected_images),
                    wfail \in AtMostOne(selected_images) :
                      AddTagToSelected(text, order, wfail)
    \/ Loaded /\ \E text \in PlainTagInputs, order \in Orders(selected_images),
                    wfail \in AtMostOne(selected_images) :
                      RemoveTagFromSelected(text, order, wfail)
    \/ Loaded /\ \E high \in BOOLEAN, wfail \in BOOLEAN : SortTags(high, wfail)

SpecSort == InitSort /\ [][NextSort]_vars

SortOps == {"sort_tags_high", "sort_tags_low"}

\* the images of S whose caption file is cp
SharingCaptionFile(S, cp) == {p \in S : CaptionPath(p) = cp}

\* C21: a tag add, tag remove or tag sort leaves captions, tag_frequency
\* and all_tags as the operation defines them whether or not the caption
\* write fails; a caption file is either left as it was or holds the
\* in-memory caption of an image whose write succeeded, and the file of an
\* image whose write failed (and which shares it with no other image of the
\* batch) is left as it was.
C21_WriteFailureKeepsMemory ==
    [][(lastOp'.name \in {"add_tag_to_selected", "remove_tag_from_selected"}
            \cup SortOps /\ lastOp'.imgs # {}
            /\ (lastOp'.name \in SortOps \/ lastOp'.arg # <<>>)) =>
          LET t == lastOp'.arg
              S == lastOp'.imgs
              holders == {p \in S : Contains(CaptionOf(captions, p), t)}
              changed == IF lastOp'.name = "add_tag_to_selected"
                         THEN S \ holders
                         ELSE IF lastOp'.name = "remove_tag_from_selected"
                         THEN holders ELSE S
              written == changed \ lastOp'.fail
          IN /\ lastOp'.name = "add_tag_to_selected" =>
                    /\ \A p \in S \ holders :
                           captions'[p] = Append(CaptionOf(captions, p), t)
                    /\ \A p \in holders : captions'[p] = captions[p]
                    /\ FreqOf(tag_frequency', t) =
                           FreqOf(tag_frequency, t) + Cardinality(S \ holders)
                    /\ all_tags' = all_tags \cup
                                       (IF S \ holders # {} THEN {t} ELSE {})
             /\ lastOp'.name = "remove_tag_from_selected" =>
                    /\ \A p \in holders :
                           captions'[p] = RemoveFirst(captions[p], t)
                    /\ \A p \in (S \cap DOMAIN captions) \ holders :
                           captions'[p] = captions[p]
                    /\ FreqOf(tag_frequency', t) =
                           FreqOf(tag_frequency, t) - Cardinality(holders)
                    /\ all_tags' = IF FreqOf(tag_frequency', t) = 0
                                   THEN all_tags \ {t} ELSE all_tags
             /\ lastOp'.name \in SortOps =>
                    /\ \A p \in S : \A x \in Range(captions[p]) :
                           Occurrences(captions'[p], x) =
                               Occurrences(captions[p], x)
                    /\ \A p \in S : Len(captions'[p]) = Len(captions[p])
                    /\ UNCHANGED <<tag_frequency, all_tags>>
             /\ \A cp \in DOMAIN texts' :
                    \/ cp \in DOMAIN texts /\ texts'[cp] = texts[cp]
                    \/ \E p \in SharingCaptionFile(written, cp) :
                           texts'[cp] = JoinTags(captions'[p])
             /\ \A p \in written :
                    SharingCaptionFile(changed, CaptionPath(p)) = {p} =>
                        /\ CaptionPath(p) \in DOMAIN texts'
                        /\ texts'[CaptionPath(p)] = JoinTags(captions'[p])
             /\ \A p \in lastOp'.fail :
                    SharingCaptionFile(changed, CaptionPath(p)) = {p} =>
                        IF CaptionPath(p) \in DOMAIN texts
                        THEN /\ CaptionPath(p) \in DOMAIN texts'
                             /\ texts'[CaptionPath(p)] = texts[CaptionPath(p)]
                        ELSE CaptionPath(p) \notin DOMAIN texts']_vars

\* a tag was added to two images; the write failed for one of them, whose
\* caption holds the tag while its file does not, and succeeded for the
\* other
C21_Witness ==
    /\ lastOp.name = "add_tag_to_selected"
    /\ \E p \in lastOp.fail, q \in lastOp.imgs \ lastOp.fail :
          /\ Contains(captions[p], lastOp.arg)
          /\ FreqOf(tag_frequency, lastOp.arg) >= 2
          /\ \/ CaptionPath(p) \notin DOMAIN texts
             \/ ~Contains(ParseCaption(texts[CaptionPath(p)]), lastOp.arg)
          /\ CaptionPath(q) # CaptionPath(p)
          /\ CaptionPath(q) \in DOMAIN texts
          /\ texts[CaptionPath(q)] = JoinTags(captions[q])
          /\ Contains(captions[q], lastOp.arg)

\* (frequency, tag) of s is below (frequency, tag) of t
PairLess(freq, s, t) ==
    \/ FreqOf(freq, s) < FreqOf(freq, t)
    \/ FreqOf(freq, s) = FreqOf(freq, t) /\ TagLess(s, t)

\* C22: after sort_tags_low the caption of the focused image lists its
\* tags with the pairs (frequency, tag) ascending, after sort_tags_high
\* with the pairs descending; the caption is the one stored and, when the
\* write succeeds, the one in the caption file.
C22_SortOrdersPairs ==
    (lastOp.name \in SortOps /\ lastOp.imgs # {}) =>
        LET p == focus_image_path
            c == captions[p]
        IN /\ lastOp.imgs = {p}
           /\ \A i, j \in 1..Len(c) :
                 i < j =>
                     IF lastOp.name = "sort_tags_low"
                     THEN ~PairLess(tag_frequency, c[j], c[i])
                     ELSE ~PairLess(tag_frequency, c[i], c[j])
           /\ lastOp.fail = {} => texts[CaptionPath(p)] = JoinTags(c)

-----------------------------------------------------------------------------
(* The "Include Subdirectories" option.                                    *)

\* loads one after the other, the option being set between them
NextSubdirs ==
    \/ Quiescent /\ \E d \in LoadDirs : OpenDirectory(d)
    \/ Quiescent /\ loads < MaxLoads /\ ToggleIncludeSubdirs
    \/ WorkerStep
    \/ DeliverResult

SpecSubdirs == InitLoad /\ [][NextSubdirs]_vars

\* the image files directly in directory d, in walk order
ScanDirFlat(d, fs) ==
    SelectSeq(WalkOrder, LAMBDA p : p \in DOMAIN fs /\ p.dir = d)

\* C23: a completed load has catalogued the whole tree below the opened
\* directory when "Include Subdirectories" is on, and only the image files
\* directly in the opened directory when it is off.
C23_OptionControlsScan ==
    LoadCompleted =>
        images = IF include_subdirs THEN ScanDir(image_dir, files)
                 ELSE ScanDirFlat(image_dir, files)

-----------------------------------------------------------------------------
(* Loads whose caption reads may fail.                                     *)

\* loads one after the other; reading an existing caption file may raise
NextFault ==
    \/ Quiescent /\ \E d \in LoadDirs : OpenDirectory(d)
    \/ WorkerStep
    \/ \E w \in DOMAIN workers : WorkerRaise(w)
    \/ DeliverResult

\* the thread pool keeps running a started worker, and the event loop of
\* the main thread dispatches every queued signal
SpecFault ==
    /\ InitLoad
    /\ [][NextFault]_vars
    /\ WF_vars(WorkerStep)
    /\ WF_vars(DeliverResult)

\* the main-thread handlers connected to the error signal of a load worker:
\* load_images connects the result signal only
ErrorSlots == {}

\* C24: whenever a load worker is in flight, eventually the main thread
\* either applies the delivered image list (populate_gallery) or runs a
\* handler that reports the failure of the load.
C24_LoadEventuallyReports ==
    (workers # EmptyMap) ~>
        (lastOp.name = "populate_gallery" \/ lastOp.name \in ErrorSlots)

\* C25: when reading the caption file of an image has failed, the load goes
\* on: its worker is still walking with that image catalogued, or it has
\* returned the whole scan of the opened directory.
C25_ReadFailureIsNonFatal ==
    lastOp.name = "worker_raise" =>
        \/ \E w \in DOMAIN workers :
              /\ workers[w].dir = image_dir
              /\ lastOp.imgs \subseteq Range(workers[w].loaded)
        \/ \E i \in 1..Len(results) :
              results[i].imgs = ScanDir(image_dir, files)

-----------------------------------------------------------------------------
(* Edits made while a load is in flight.                                   *)

InitRace == InitWorld(SortTopChoices, RelocSubChoices, EmptyDst)

\* loads one after the other; while one is in flight the user goes on
\* clicking thumbnails of the gallery still shown and runs one tag edit,
\* sort or move
NextRace ==
    \/ Quiescent /\ \E d \in LoadDirs : OpenDirectory(d)
    \/ WorkerStep
    \/ DeliverResult
    \/ ~Quiescent /\ \E p \in SourceImages : ImageClicked(p)
    \/ ~Quiescent /\ relocs + edits < MaxBatches
          /\ \E order \in Orders(selected_images), wfail \in NoFailure :
                AddTagToSelected(<<"a">>, order, wfail)
    \/ ~Quiescent /\ relocs + edits < MaxBatches
          /\ \E order \in Orders(selected_images), wfail \in NoFailure :
                RemoveTagFromSelected(<<"b">>, order, wfail)
    \/ ~Quiescent /\ relocs + edits < MaxBatches
          /\ \E high \in BOOLEAN : SortTags(high, FALSE)
    \/ ~Quiescent /\ relocs + edits < MaxBatches
          /\ \E order \in Orders(selected_images) :
                MoveSelection(DestDir, order, {}, {})

SpecRace == InitRace /\ [][NextRace]_vars

MutatingOps ==
    {"add_tag_to_selected", "remove_tag_from_selected", "move_selection"}
        \cup SortOps

\* C26: between the request of a load and the delivery of its result, no
\* tag add, tag remove, tag sort or move changes captions, tag_frequency,
\* all_tags or a caption file.
C26_NoMutationDuringLoad ==
    [][(~Quiescent /\ lastOp'.name \in MutatingOps) =>
          UNCHANGED <<captions, tag_frequency, all_tags, texts>>]_vars

-----------------------------------------------------------------------------
(* Operations whose input is rejected.                                     *)

\* one copy, move, tag add or tag remove after a completed load, with any
\* selection (none included), any destination (none chosen included), any
\* text in the tag field (blank included), with or without a filter set
NextValidate ==
    \/ LoadOnce
    \/ Loaded /\ \E p \in SourceImages : ImageClicked(p)
    \/ Loaded /\ ~filter_active
          /\ \E sel \in SUBSET tag_list \ {{}} : FilterImages(sel)
    \/ Loaded /\ relocs + edits < MaxBatches
          /\ \E dest \in DestChoices, order \in Orders(selected_images) :
                CopySelection(dest, order, {}, {})
    \/ Loaded /\ relocs + edits < MaxBatches
          /\ \E dest \in DestChoices, order \in Orders(selected_images) :
                MoveSelection(dest, order, {}, {})
    \/ Loaded /\ relocs + edits < MaxBatches
          /\ \E text \in TagInputs, order \in Orders(selected_images),
                wfail \in NoFailure :
                  AddTagToSelected(text, order, wfail)
    \/ Loaded /\ relocs + edits < MaxBatches
          /\ \E text \in TagInputs, order \in Orders(selected_images),
                wfail \in NoFailure :
                  RemoveTagFromSelected(text, order, wfail)

SpecValidate == InitFilter /\ [][NextValidate]_vars

\* s holds nothing but spaces
Blank(s) == \A i \in 1..Len(s) : s[i] = " "

\* C27: a copy or move with no image selected or no destination chosen, and
\* a tag add or remove with no image selected or a blank tag, change
\* nothing: catalog, captions, tag index, selection, filter state, gallery
\* and files are as before.
C27_RejectedInputChangesNothing ==
    [][(\/ /\ lastOp'.name \in {"copy_selection", "move_selection"}
           /\ (lastOp'.imgs = {} \/ lastOp'.arg = Text(""))
        \/ /\ lastOp'.name \in {"add_tag_to_selected",
                                "remove_tag_from_selected"}
           /\ (lastOp'.imgs = {} \/ Blank(lastOp'.arg))) =>
          UNCHANGED <<images, captions, tag_frequency, all_tags,
                      selected_images, filtered_images, filter_active,
                      filter_mode, focus_image_path, tag_list, gallery, files,
                      texts>>]_vars

\* a tag add with a blank tag field was run on a non-empty selection while
\* a filter was active
C27_Witness ==
    /\ lastOp.name = "add_tag_to_selected"
    /\ lastOp.arg = <<>>
    /\ lastOp.imgs # {}
    /\ selected_images = lastOp.imgs
    /\ filter_active

-----------------------------------------------------------------------------
(* Filters asked for with no tag chosen.                                   *)

\* C28: filter_images and ignore_tags run with no tag chosen in the tag
\* list change nothing: filter_active and filtered_images keep their
\* values, and catalog, captions, tag index, selection, mode and gallery
\* are as before.
C28_EmptyChoiceIsNoOp ==
    [][(lastOp'.name \in {"filter_images", "ignore_tags"}
            /\ lastOp'.tags = {}) =>
          UNCHANGED <<filter_active, filtered_images, images, captions,
                      tag_frequency, all_tags, selected_images, filter_mode,
                      focus_image_path, tag_list, gallery, files,
                      texts>>]_vars

\* filter_images ran with no tag chosen while a filter with a non-empty
\* view was active and images were selected
C28_Witness ==
    /\ lastOp.name = "filter_images"
    /\ lastOp.tags = {}
    /\ filter_active
    /\ filtered_images # <<>>
    /\ filtered_images # images
    /\ selected_images # {}

-----------------------------------------------------------------------------
(* The counts of a bulk tag edit.                                          *)

\* the images of S whose caption holds tag t
Holding(S, t) == {p \in S : Contains(CaptionOf(captions, p), t)}

\* C29: add_tag_to_selected of tag t over the selection S raises
\* tag_frequency[t] by the number of images of S whose caption lacks t, and
\* remove_tag_from_selected lowers it by the number of images of S whose
\* caption holds t; the captions of the images outside S and the counts of
\* the other tags are unchanged.
C29_BulkEditCounts ==
    [][(lastOp'.name \in {"add_tag_to_selected", "remove_tag_from_selected"}
            /\ lastOp'.arg # <<>> /\ lastOp'.imgs # {}) =>
          LET t == lastOp'.arg
              S == lastOp'.imgs
          IN /\ FreqOf(tag_frequency', t) =
                    IF lastOp'.name = "add_tag_to_selected"
                    THEN FreqOf(tag_frequency, t)
                             + Cardinality(S \ Holding(S, t))
                    ELSE FreqOf(tag_frequency, t)
                             - Cardinality(Holding(S, t))
             /\ \A u \in (DOMAIN tag_frequency \cup DOMAIN tag_frequency')
                             \ {t} :
                    FreqOf(tag_frequency', u) = FreqOf(tag_frequency, u)
             /\ \A p \in (DOMAIN captions \cup DOMAIN captions') \ S :
                    /\ p \in DOMAIN captions /\ p \in DOMAIN captions'
                    /\ captions'[p] = captions[p]]_vars

\* the second bulk edit of the session added a tag to a selection of three
\* images; the tag is now counted three times and another tag is counted
\* besides it
C29_Witness ==
    /\ lastOp.name = "add_tag_to_selected"
    /\ Cardinality(lastOp.imgs) = 3
    /\ edits = 2
    /\ FreqOf(tag_frequency, lastOp.arg) = 3
    /\ \E u \in DOMAIN tag_frequency : u # lastOp.arg

-----------------------------------------------------------------------------
(* Files already in the destination.                                       *)

\* C30: a copy or move leaves every image and caption file that was in
\* the destination before it as it was, and no two images of the batch are
\* written to the same destination image or caption file.
C30_NoOverwrite ==
    [][(lastOp'.name \in {"copy_selection", "move_selection"}
           /\ lastOp'.arg = Text(DestDir)) =>
          LET log == lastOp'.log
          IN /\ \A p \in DOMAIN files :
                    p.dir = DestDir =>
                        p \in DOMAIN files' /\ files'[p] = files[p]
             /\ \A p \in DOMAIN texts :
                    p.dir = DestDir =>
                        p \in DOMAIN texts' /\ texts'[p] = texts[p]
             /\ \A i, j \in 1..Len(log) :
                    i < j =>
                        /\ (log[i].ok /\ log[j].ok) => log[i].dst # log[j].dst
                        /\ (log[i].cap = "ok" /\ log[j].cap = "ok") =>
                               DestCaptionPath(DestDir, log[i].dst)
                                   # DestCaptionPath(DestDir, log[j].dst)]_vars

-----------------------------------------------------------------------------
(* Sessions with more than one directory.                                  *)

\* loads one after the other, each run to completion before the user goes
\* on; between them filters, selections, one tag addition or one move
NextSession ==
    \/ Quiescent /\ \E d \in LoadDirs : OpenDirectory(d)
    \/ WorkerStep
    \/ DeliverResult
    \/ Loaded /\ \E p \in SourceImages : ImageClicked(p)
    \/ Loaded /\ SelectAllImages
    \/ Loaded /\ InvertSelection
    \/ Loaded /\ \E sel \in SUBSET tag_list : FilterImages(sel)
    \/ Loaded /\ ClearFilter
    \/ Loaded /\ relocs + edits < MaxBatches
          /\ \E order \in Orders(selected_images), wfail \in NoFailure :
                AddTagToSelected(<<"a">>, order, wfail)
    \/ Loaded /\ relocs + edits < MaxBatches
          /\ \E order \in Orders(selected_images) :
                MoveSelection(DestDir, order, {}, {})

SpecSession == InitFilter /\ [][NextSession]_vars

\* C31: whenever no load is in flight, every selected image is in the
\* catalog.
C31_SelectionWithinCatalog ==
    Quiescent => selected_images \subseteq Range(images)

\* from is a subsequence of the sequence of distinct elements into
IsSubsequence(from, into) ==
    /\ Range(from) \subseteq Range(into)
    /\ \A i, j \in 1..Len(from) :
          i < j =>
              \E k, l \in 1..Len(into) :
                  k < l /\ into[k] = from[i] /\ into[l] = from[j]

\* C32: whenever a filter is active and no load is in flight,
\* filtered_images is a subsequence of the catalog.
C32_FilteredViewWithinCatalog ==
    (Quiescent /\ filter_active) => IsSubsequence(filtered_images, images)

\* C33: whenever no load is in flight, the images with an entry in captions
\* are the images of the catalog, and every tag counted in tag_frequency is
\* in the caption of a catalog image.
C33_CaptionsKeyedByCatalog ==
    Quiescent =>
        /\ DOMAIN captions = Range(images)
        /\ \A t \in DOMAIN tag_frequency :
              tag_frequency[t] > 0 =>
                  \E p \in Range(images) :
                      p \in DOMAIN captions /\ Contains(captions[p], t)

-----------------------------------------------------------------------------
(* The filtered view after tag edits.                                      *)

\* the predicates a view can come from: filter_images in either mode and
\* ignore_tags
ViewKinds == {"Inclusive", "Exclusive", "Ignore"}

ViewOf(kind, tags, imgs, caps) ==
    IF kind = "Ignore" THEN IgnoreView(imgs, caps, tags)
    ELSE FilterView(imgs, caps, kind, tags)

\* C34: a tag add or remove made while a filter is active leaves a view
\* that is still exactly the catalog images satisfying the predicate the
\* view came from, now evaluated against the new captions: some predicate
\* that described the view before the edit describes it after the edit.
C34_ViewFollowsCaptions ==
    [][(filter_active /\ filter_active'
           /\ lastOp'.name \in {"add_tag_to_selected",
                                "remove_tag_from_selected"}) =>
          \E kind \in ViewKinds, tags \in SUBSET KnownTags \ {{}} :
              /\ filtered_images = ViewOf(kind, tags, images, captions)
              /\ filtered_images' = ViewOf(kind, tags, images', captions')]_vars

-----------------------------------------------------------------------------
(* What a sort leaves alone.                                               *)

\* the caption files of a session whose top image repeats a tag
FrameTopChoices == { <<<<"b", ",", "a", ",", "b">>>> }

InitFrame == InitWorld(FrameTopChoices, SortSubChoices, EmptyDst)

\* sorts after a completed load, with a selection, a filter and a move that
\* takes the focused image out of the session
NextFrame ==
    \/ LoadOnce
    \/ Loaded /\ \E p \in SourceImages : ImageClicked(p)
    \/ Loaded /\ ~filter_active
          /\ \E sel \in SUBSET tag_list \ {{}} : FilterImages(sel)
    \/ Loaded /\ \E order \in Orders(selected_images) :
                    MoveSelection(DestDir, order, {}, {})
    \/ Loaded /\ \E high \in BOOLEAN, wfail \in BOOLEAN : SortTags(high, wfail)

SpecFrame == InitFrame /\ [][NextFrame]_vars

\* C35: sort_tags_high and sort_tags_low leave the caption of the focused
\* image with the same tags in the same numbers, and leave tag_frequency,
\* all_tags, images, selected_images, the filter state, the focus and the
\* caption of every other image as they were; when the focused image has
\* no entry in captions nothing changes, caption files included.
C35_SortChangesOrderOnly ==
    [][lastOp'.name \in SortOps =>
          LET f == focus_image_path
          IN /\ UNCHANGED <<tag_frequency, all_tags, images, selected_images,
                            filter_active, filtered_images, filter_mode,
                            focus_image_path, tag_list, gallery, files>>
             /\ DOMAIN captions' = DOMAIN captions
             /\ \A p \in DOMAIN captions \ {f} : captions'[p] = captions[p]
             /\ f \in DOMAIN captions =>
                    /\ Len(captions'[f]) = Len(captions[f])
                    /\ \A x \in Range(captions[f]) \cup Range(captions'[f]) :
                           Occurrences(captions'[f], x)
                               = Occurrences(captions[f], x)
             /\ f \notin DOMAIN captions => UNCHANGED <<captions, texts>>]_vars

\* a sort has reordered a caption of three tags, one of them held twice,
\* while a filter was active, images were selected and other images had
\* captions
C35_Witness ==
    /\ lastOp.name \in SortOps
    /\ lastOp.imgs = {focus_image_path}
    /\ Len(captions[focus_image_path]) = 3
    /\ \E x \in Range(captions[focus_image_path]) :
          Occurrences(captions[focus_image_path], x) = 2
    /\ captions[focus_image_path] # <<<<"b">>, <<"a">>, <<"b">>>>
    /\ filter_active
    /\ selected_images # {}
    /\ DOMAIN captions # {focus_image_path}

====
